---- MODULE Spec2Model ----
(***************************************************************************)
(* A model of Halon (src/halon.py): the Directory/File tree of an archive, *)
(* path lookup and find over it, the tree diff, and the loading of the     *)
(* index/data containers with the lazy content read.                       *)
(*                                                                         *)
(* Python strings are sequences of one-character strings, so that          *)
(* os.path.join, os.path.normpath, str.split and the substring test `in`   *)
(* are computed, not assumed.  os.sep is "/" (POSIX).                      *)
(***************************************************************************)
EXTENDS Integers, Sequences, FiniteSets, TLC

VARIABLES
    dir1, dir2,     \* the two Directory trees handed to diff
    verbose,        \* diff's verbose argument of the last call
    events,         \* the list of events the last diff call yielded
    dpc,            \* "start" before the diff call, "done" after it
    root,           \* the root Directory that find/list/lookup run on
    op,             \* the operation called on root, with its arguments
    result,         \* what that operation returned or raised
    indexFile,      \* the .index file on disk
    dataFile,       \* the .archive file on disk, or no such file
    pc,             \* where Filesystem.__init__ stands, "ready" once it returned
    index,          \* Filesystem.index, the index Archive once parsed
    data,           \* Filesystem.data, the data Archive or None
    stack,          \* the Directory.__init__ calls in progress, innermost last
    fsroot,         \* Filesystem.root once built
    seeks,          \* every (container, block index) a seek and read went through
    err,            \* the exception that ended Filesystem.__init__, if any
    lastRead        \* the last File.read call: the File and the outcome

diffVars == <<dir1, dir2, verbose, events, dpc>>
lookupVars == <<root, op, result>>
fsVars == <<indexFile, dataFile, pc, index, data, stack, fsroot, seeks, err, lastRead>>
vars == <<dir1, dir2, verbose, events, dpc, root, op, result,
          indexFile, dataFile, pc, index, data, stack, fsroot, seeks, err, lastRead>>

---------------------------------------------------------------------------
(* Bounds of the model.                                                    *)

\* Nesting depth of the Directory trees given to diff (root/d/d/d).
MaxDepth == 3
\* Nesting depth of the Directory trees that lookup and find run on.
LookupDepth == 2
\* Length, in characters, of the paths and patterns given to lookup and find.
MaxPathLen == 4
\* The interpreter's limit on nested calls, counted in Directory.__init__
\* frames (sys.getrecursionlimit() is 1000 by default; halon.py sets none).
RecursionLimit == 4

DirNames  == {<<"d">>}
FileNames == {<<"f">>}
Hashes    == {"h1", "h2"}
\* the characters paths are made of
PathChars == {"d", "f", "/", "."}

---------------------------------------------------------------------------
(* Strings and sequences.                                                  *)

SEP == "/"

Last(s) == s[Len(s)]

RECURSIVE Concat(_)
\* The concatenation of a sequence of sequences (`yield from` in a loop).
Concat(ss) == IF ss = <<>> THEN <<>> ELSE Head(ss) \o Concat(Tail(ss))

RECURSIVE SeqOf(_)
\* One iteration order of a set or of a dict's keys.  Python leaves the
\* order of a frozenset unspecified; nothing checked below depends on it.
SeqOf(S) ==
    IF S = {} THEN <<>>
    ELSE LET x == CHOOSE y \in S : TRUE IN <<x>> \o SeqOf(S \ {x})

Range(s) == {s[i] : i \in 1..Len(s)}

\* posixpath.join(a, b)
Join(a, b) ==
    IF b # <<>> /\ b[1] = SEP THEN b
    ELSE IF a = <<>> \/ Last(a) = SEP THEN a \o b
    ELSE a \o <<SEP>> \o b

\* str.find(c) + 1: the place of the first c in s, 0 when there is none
IndexOf(s, c) ==
    IF \E i \in 1..Len(s) : s[i] = c
    THEN CHOOSE i \in 1..Len(s) : s[i] = c /\ \A j \in 1..(i - 1) : s[j] # c
    ELSE 0

\* sub in s
Contains(s, sub) ==
    \E i \in 0..(Len(s) - Len(sub)) : SubSeq(s, i + 1, i + Len(sub)) = sub

RECURSIVE SplitAll(_)
\* s.split(os.sep)
SplitAll(s) ==
    LET i == IndexOf(s, SEP)
    IN  IF i = 0 THEN <<s>>
        ELSE <<SubSeq(s, 1, i - 1)>> \o SplitAll(SubSeq(s, i + 1, Len(s)))

\* s.split(os.sep, 1): the head, and the rest when there is a separator
Split1(s) ==
    LET i == IndexOf(s, SEP)
    IN  IF i = 0 THEN [head |-> s, tail |-> <<>>]
        ELSE [head |-> SubSeq(s, 1, i - 1), tail |-> <<SubSeq(s, i + 1, Len(s))>>]

RECURSIVE JoinSep(_)
\* os.sep.join(comps)
JoinSep(comps) ==
    IF comps = <<>> THEN <<>>
    ELSE IF Len(comps) = 1 THEN comps[1]
    ELSE comps[1] \o <<SEP>> \o JoinSep(Tail(comps))

DOT == <<".">>
DOTDOT == <<".", ".">>

RECURSIVE NormComps(_, _, _)
\* posixpath.normpath's loop over the components
NormComps(comps, initial, acc) ==
    IF comps = <<>> THEN acc
    ELSE LET comp == Head(comps)
             next ==
                IF comp = <<>> \/ comp = DOT THEN acc
                ELSE IF \/ comp # DOTDOT
                        \/ (initial = 0 /\ acc = <<>>)
                        \/ (acc # <<>> /\ Last(acc) = DOTDOT)
                     THEN Append(acc, comp)
                ELSE IF acc # <<>> THEN SubSeq(acc, 1, Len(acc) - 1)
                ELSE acc
         IN  NormComps(Tail(comps), initial, next)

\* posixpath.normpath(path)
NormPath(path) ==
    IF path = <<>> THEN DOT
    ELSE LET starts(n) == Len(path) >= n /\ \A i \in 1..n : path[i] = SEP
             initial == IF ~starts(1) THEN 0
                        ELSE IF starts(2) /\ ~starts(3) THEN 2 ELSE 1
             joined == JoinSep(NormComps(SplitAll(path), initial, <<>>))
             out == [i \in 1..initial |-> SEP] \o joined
         IN  IF out = <<>> THEN DOT ELSE out

---------------------------------------------------------------------------
(* The tree: File and Directory nodes.                                     *)

\* File.__init__: the fields the operations below read.
File(name, parentPath, fs, compression, sha1) ==
    [kind |-> "File", name |-> name, path |-> Join(parentPath, name),
     fs |-> fs, compression |-> compression, sha1 |-> sha1]

\* Directory.__init__, the fields it sets (the children are filled in by
\* the caller: the loop over the entries is modelled where trees are built).
Directory(name, parentPath, fs, dirs, files) ==
    [kind |-> "Directory", name |-> name, path |-> Join(parentPath, name),
     fs |-> fs, dirs |-> dirs, files |-> files]

RECURSIVE Trees(_, _, _, _)
\* Every Directory of nesting depth at most k that Filesystem fs can hold
\* under the given name, over DirNames, FileNames and Hashes.
Trees(k, name, parentPath, fs) ==
    LET path == Join(parentPath, name)
        fileMaps ==
            UNION {{[n \in F |-> File(n, path, fs, 1, h[n])] : h \in [F -> Hashes]}
                   : F \in SUBSET FileNames}
        subs == UNION {Trees(k - 1, n, path, fs) : n \in DirNames}
        dirMaps ==
            IF k = 0 THEN {[n \in {} |-> n]}
            ELSE UNION {{f \in [D -> subs] : \A n \in D : f[n].name = n}
                        : D \in SUBSET DirNames}
    IN  {Directory(name, parentPath, fs, ds, fm) : ds \in dirMaps, fm \in fileMaps}

\* the variables of the operations a specification does not run
DiffIdle ==
    dir1 = <<>> /\ dir2 = <<>> /\ verbose = FALSE /\ events = <<>> /\ dpc = "idle"
LookupIdle ==
    root = <<>> /\ op = [name |-> "none"] /\ result = <<>>
FsIdle ==
    /\ indexFile = <<>> /\ dataFile = <<>> /\ pc = "idle" /\ index = <<>>
    /\ data = <<>> /\ stack = <<>> /\ fsroot = <<>> /\ seeks = {}
    /\ err = <<>> /\ lastRead = <<>>

---------------------------------------------------------------------------
(* diff and diffcount.                                                     *)

\* ('-', node) and ('+', node)
Removal(node)  == [t |-> "-", item |-> node]
Addition(node) == [t |-> "+", item |-> node]
FileChange_Tree1Twice(file1, file2) == [t |-> "!", item |-> <<file1, file1>>]
\* ('!', (file1, file2))
FileChange(file1, file2) == [t |-> "!", item |-> <<file1, file2>>]
\* ('!', (dir1.dirs[d], dir2.dirs[d]), (r, a, c))
DirChange(sub1, sub2, count) == [t |-> "!", item |-> <<sub1, sub2>>, count |-> count]

FileChanged_ByIdentity(file1, file2) == file1 # file2
\* line 252: only the content hashes are compared
FileChanged(file1, file2) == file1.sha1 # file2.sha1

\* zip(*events)[0], or [] when there is no event: the events' type tags
Tags(evs) == [i \in 1..Len(evs) |-> evs[i].t]

\* collections.Counter(diffs)[t]
Count(tags, t) == Cardinality({i \in 1..Len(tags) : tags[i] = t})

RECURSIVE diff(_, _, _)
RECURSIVE diffcount(_, _)

diff(d1, d2, v) ==
    LET dn1 == DOMAIN d1.dirs
        dn2 == DOMAIN d2.dirs
        remD == SeqOf(dn1 \ dn2)
        addD == SeqOf(dn2 \ dn1)
        comD == SeqOf(dn1 \cap dn2)
        \* line 236 passes no verbose argument: the nested call runs with
        \* the default, verbose=False
        nested(d) ==
            IF v THEN diff(d1.dirs[d], d2.dirs[d], FALSE)
            ELSE LET rac == diffcount(d1.dirs[d], d2.dirs[d])
                 IN  IF rac[1] > 0 \/ rac[2] > 0 \/ rac[3] > 0
                     THEN <<DirChange(d1.dirs[d], d2.dirs[d], rac)>>
                     ELSE <<>>
        fn1 == DOMAIN d1.files
        fn2 == DOMAIN d2.files
        remF == SeqOf(fn1 \ fn2)
        addF == SeqOf(fn2 \ fn1)
        comF == SeqOf(fn1 \cap fn2)
        changed(f) ==
            IF FileChanged(d1.files[f], d2.files[f])
            THEN <<FileChange(d1.files[f], d2.files[f])>>
            ELSE <<>>
    IN  [i \in 1..Len(remD) |-> Removal(d1.dirs[remD[i]])]
        \o [i \in 1..Len(addD) |-> Addition(d2.dirs[addD[i]])]
        \o Concat([i \in 1..Len(comD) |-> nested(comD[i])])
        \o [i \in 1..Len(remF) |-> Removal(d1.files[remF[i]])]
        \o [i \in 1..Len(addF) |-> Addition(d2.files[addF[i]])]
        \o Concat([i \in 1..Len(comF) |-> changed(comF[i])])

diffcount(d1, d2) ==
    LET diffs == Tags(diff(d1, d2, TRUE))
    IN  <<Count(diffs, "-"), Count(diffs, "+"), Count(diffs, "!")>>

---------------------------------------------------------------------------
(* The diff command: two loaded trees, one call of diff.                   *)

\* The root Directory of Filesystem fs: Directory('', None, fs, ...)
Roots(fs) == Trees(MaxDepth, <<>>, <<>>, fs)

\* archive 1's tree against archive 2's tree, or against itself
DiffInit ==
    /\ dir1 \in Roots(1)
    /\ dir2 \in Roots(2) \cup {dir1}
    /\ verbose = FALSE
    /\ events = <<>>
    /\ dpc = "start"
    /\ LookupIdle
    /\ FsIdle

\* for ... in diff(a1[path], a2[path], args.recursive)
Diff ==
    /\ dpc = "start"
    /\ \E v \in BOOLEAN :
        /\ verbose' = v
        /\ events' = diff(dir1, dir2, v)
    /\ dpc' = "done"
    /\ UNCHANGED <<dir1, dir2>>
    /\ UNCHANGED lookupVars
    /\ UNCHANGED fsVars

SpecDiff == DiffInit /\ [][Diff]_vars

---------------------------------------------------------------------------
(* What the diff claims speak of, computed from the trees alone.           *)

RECURSIVE AllFiles(_)
\* every File node below a Directory, at every depth
AllFiles(d) ==
    {d.files[n] : n \in DOMAIN d.files}
    \cup UNION {AllFiles(d.dirs[n]) : n \in DOMAIN d.dirs}

RECURSIVE AllDirs(_)
\* every Directory node strictly below a Directory, at every depth
AllDirs(d) ==
    {d.dirs[n] : n \in DOMAIN d.dirs}
    \cup UNION {AllDirs(d.dirs[n]) : n \in DOMAIN d.dirs}

DirPaths(d)  == {x.path : x \in AllDirs(d)}
FilePaths(d) == {x.path : x \in AllFiles(d)}
FileAt(d, p) == CHOOSE x \in AllFiles(d) : x.path = p

RECURSIVE Content(_)
\* the names and content hashes of a tree, and nothing else
Content(d) ==
    [dirs  |-> [n \in DOMAIN d.dirs |-> Content(d.dirs[n])],
     files |-> [n \in DOMAIN d.files |-> d.files[n].sha1]]

RECURSIVE Totals(_, _)
\* <<removed, added, changed>> over the whole nested subtree of two
\* directories: a directory or file on one side only counts once, a common
\* file counts when its hash differs, a common directory is descended into.
Totals(d1, d2) ==
    LET dn1 == DOMAIN d1.dirs
        dn2 == DOMAIN d2.dirs
        fn1 == DOMAIN d1.files
        fn2 == DOMAIN d2.files
        com == SeqOf(dn1 \cap dn2)
        RECURSIVE Sum(_, _)
        Sum(i, k) == IF i > Len(com) THEN 0
                     ELSE Totals(d1.dirs[com[i]], d2.dirs[com[i]])[k] + Sum(i + 1, k)
    IN  <<Cardinality(dn1 \ dn2) + Cardinality(fn1 \ fn2) + Sum(1, 1),
          Cardinality(dn2 \ dn1) + Cardinality(fn2 \ fn1) + Sum(1, 2),
          Cardinality({f \in fn1 \cap fn2 : d1.files[f].sha1 # d2.files[f].sha1})
            + Sum(1, 3)>>

IsDirChange(e)  == e.t = "!" /\ "count" \in DOMAIN e
IsFileChange(e) == e.t = "!" /\ "count" \notin DOMAIN e /\ e.item[1].kind = "File"

CommonDirs == DOMAIN dir1.dirs \cap DOMAIN dir2.dirs

\* the events of the last call that are a change event for subdirectory d
DirEventsFor(d) ==
    {i \in 1..Len(events) :
        /\ IsDirChange(events[i])
        /\ events[i].item = <<dir1.dirs[d], dir2.dirs[d]>>}

\* C1: in summary mode every common subdirectory d gets exactly one change
\* event, carrying both directory nodes and the totals over d's whole nested
\* subtree, and no event when the totals are all zero.
C1_SummaryCarriesSubtreeTotals ==
    (dpc = "done" /\ ~verbose) =>
        \A d \in CommonDirs :
            LET tot == Totals(dir1.dirs[d], dir2.dirs[d])
                evs == DirEventsFor(d)
            IN  IF tot = <<0, 0, 0>> THEN evs = {}
                ELSE /\ Cardinality(evs) = 1
                     /\ \A i \in evs : events[i].count = tot

\* T2 is T1 plus one new file inside a common subdirectory
OneFileAddedInSubdir ==
    /\ DirPaths(dir1) = DirPaths(dir2)
    /\ FilePaths(dir1) \subseteq FilePaths(dir2)
    /\ Cardinality(FilePaths(dir2) \ FilePaths(dir1)) = 1
    /\ \A p \in FilePaths(dir1) : FileAt(dir1, p).sha1 = FileAt(dir2, p).sha1
    /\ \A p \in FilePaths(dir2) \ FilePaths(dir1) : \E i \in 1..Len(p) : p[i] = SEP

AddedFile == FileAt(dir2, CHOOSE p \in FilePaths(dir2) \ FilePaths(dir1) : TRUE)

\* C2: in verbose mode every event is a removal, an addition or a file-level
\* change, never a directory-level change with a count triple; and one file
\* added inside a common subdirectory gives exactly one addition event, for
\* that file.
C2_VerboseYieldsNestedEvents ==
    (dpc = "done" /\ verbose) =>
        /\ \A i \in 1..Len(events) :
                \/ events[i].t \in {"-", "+"}
                \/ IsFileChange(events[i])
        /\ OneFileAddedInSubdir =>
                /\ Len(events) = 1
                /\ events[1].t = "+"
                /\ events[1].item = AddedFile

\* the two trees are the same but for the stored hash of exactly one File
HashDiffPaths ==
    {p \in FilePaths(dir1) \cap FilePaths(dir2) :
        FileAt(dir1, p).sha1 # FileAt(dir2, p).sha1}

OneHashDiffers ==
    /\ DirPaths(dir1) = DirPaths(dir2)
    /\ FilePaths(dir1) = FilePaths(dir2)
    /\ Cardinality(HashDiffPaths) = 1

ChangedPath == CHOOSE p \in HashDiffPaths : TRUE
\* the File is a direct child of the two directories diff was called on
ChangedAtTop == \A i \in 1..Len(ChangedPath) : ChangedPath[i] # SEP
\* the name of the top-level subdirectory the changed File lies under
ChangedTopDir ==
    CHOOSE d \in DOMAIN dir1.dirs :
        ChangedPath \in FilePaths(dir1.dirs[d])

IsTheFileChange(e) ==
    /\ IsFileChange(e)
    /\ e.item = <<FileAt(dir1, ChangedPath), FileAt(dir2, ChangedPath)>>

\* C3 as stated: one differing hash, at any depth and in either mode, gives
\* exactly one event, the file-level change carrying both File nodes.
C3_OneFileChangeEventAnyDepth ==
    (dpc = "done" /\ OneHashDiffers) =>
        /\ Len(events) = 1
        /\ IsTheFileChange(events[1])

\* the File is a direct child of a top-level subdirectory
ChangedOneLevelDown ==
    Cardinality({i \in 1..Len(ChangedPath) : ChangedPath[i] = SEP}) = 1

\* C3 amended: one differing hash gives exactly one event, a change event.
\* It is the file-level change carrying both File nodes when the File is a
\* direct child of the compared directories, and in verbose mode also when
\* it is a direct child of one of their subdirectories; in summary mode a
\* File below the top level is reported as the directory-level change of
\* the top-level subdirectory it lies under, with the triple (0, 0, 1).
C3_OneChangeEvent ==
    (dpc = "done" /\ OneHashDiffers) =>
        /\ Len(events) = 1
        /\ events[1].t = "!"
        /\ ChangedAtTop => IsTheFileChange(events[1])
        /\ (verbose /\ ChangedOneLevelDown) => IsTheFileChange(events[1])
        /\ (~ChangedAtTop /\ ~verbose) =>
                /\ IsDirChange(events[1])
                /\ events[1].item = <<dir1.dirs[ChangedTopDir], dir2.dirs[ChangedTopDir]>>
                /\ events[1].count = <<0, 0, 1>>

C3_Witness ==
    /\ dpc = "done" /\ OneHashDiffers
    /\ ~ChangedAtTop /\ ~verbose
    /\ dir1.fs # dir2.fs

\* C4: a tree diffed against itself, or against a separately loaded tree of
\* the same names and hashes, yields no event, in both modes.
C4_SameContentNoEvents ==
    (dpc = "done" /\ Content(dir1) = Content(dir2)) => Len(events) = 0

C4_Witness ==
    /\ dpc = "done" /\ verbose
    /\ dir1 # dir2 /\ Content(dir1) = Content(dir2)
    /\ \E p \in FilePaths(dir1) : Len(p) >= 5

---------------------------------------------------------------------------
(* Path lookup and find.                                                   *)

Found(node) == [ok |-> TRUE, node |-> node]
\* e = FileNotFoundError("Could not find %s" % head); e.file = head
NotFound(head) ==
    [ok |-> FALSE, file |-> head, args |-> <<"Could not find ">> \o head]
\* e.args = ("Could not find %s in path %s" % (e.file, path),)
Rewritten(e, path) ==
    [e EXCEPT !.args = <<"Could not find ">> \o e.file \o <<" in path ">> \o path]

RECURSIVE GetItem(_, _)
\* Directory.__getitem__(self, path).  A missing tail calls the child with
\* path=None, which `not path` treats as the empty string.
GetItem(self, path) ==
    IF path = <<>> THEN Found(self)
    ELSE LET parts == Split1(NormPath(path))
             head == parts.head
             tail == IF parts.tail = <<>> THEN <<>> ELSE parts.tail[1]
             r == IF head \in DOMAIN self.dirs THEN GetItem(self.dirs[head], tail)
                  ELSE IF head \in DOMAIN self.files THEN Found(self.files[head])
                  ELSE NotFound(head)
         IN  IF r.ok THEN r
             ELSE IF path # r.file THEN Rewritten(r, path)
             ELSE r

RECURSIVE find_Shallow(_, _, _)
find_Shallow(self, path, recursive) ==
    LET fs == SeqOf(DOMAIN self.files)
        ds == SeqOf(DOMAIN self.dirs)
        file(n) == IF Contains(self.files[n].path, path) THEN <<self.files[n]>> ELSE <<>>
        dir(n) ==
            (IF Contains(self.dirs[n].path, path) THEN <<self.dirs[n]>> ELSE <<>>)
            \o (IF recursive THEN find_Shallow(self.dirs[n], path, FALSE) ELSE <<>>)
    IN  Concat([i \in 1..Len(fs) |-> file(fs[i])])
        \o Concat([i \in 1..Len(ds) |-> dir(ds[i])])

RECURSIVE find(_, _, _)
\* Directory.find(self, path, recursive): the nodes in the order yielded
find(self, path, recursive) ==
    LET fs == SeqOf(DOMAIN self.files)
        ds == SeqOf(DOMAIN self.dirs)
        file(n) == IF Contains(self.files[n].path, path) THEN <<self.files[n]>> ELSE <<>>
        dir(n) ==
            (IF Contains(self.dirs[n].path, path) THEN <<self.dirs[n]>> ELSE <<>>)
            \o (IF recursive THEN find(self.dirs[n], path, TRUE) ELSE <<>>)
    IN  Concat([i \in 1..Len(fs) |-> file(fs[i])])
        \o Concat([i \in 1..Len(ds) |-> dir(ds[i])])

\* Directory.list(self, path, recursive): the paths of what find yields
list(self, path, recursive) ==
    LET found == find(self, path, recursive)
    IN  [i \in 1..Len(found) |-> found[i].path]

\* every string of at most MaxPathLen characters over PathChars
Paths == UNION {[1..n -> PathChars] : n \in 0..MaxPathLen}

LookupInit ==
    /\ root \in Trees(LookupDepth, <<>>, <<>>, 1)
    /\ op = [name |-> "none"]
    /\ result = <<>>
    /\ DiffIdle
    /\ FsIdle

\* archive[path]
GetItemOp ==
    /\ op.name = "none"
    /\ \E path \in Paths :
        /\ op' = [name |-> "getitem", path |-> path]
        /\ result' = GetItem(root, path)
    /\ UNCHANGED root
    /\ UNCHANGED diffVars
    /\ UNCHANGED fsVars

\* archive.find(name, recursive)
FindOp ==
    /\ op.name = "none"
    /\ \E path \in Paths, recursive \in BOOLEAN :
        /\ op' = [name |-> "find", path |-> path, recursive |-> recursive]
        /\ result' = find(root, path, recursive)
    /\ UNCHANGED root
    /\ UNCHANGED diffVars
    /\ UNCHANGED fsVars

\* archive.list(path, recursive)
ListOp ==
    /\ op.name = "none"
    /\ \E path \in Paths, recursive \in BOOLEAN :
        /\ op' = [name |-> "list", path |-> path, recursive |-> recursive]
        /\ result' = list(root, path, recursive)
    /\ UNCHANGED root
    /\ UNCHANGED diffVars
    /\ UNCHANGED fsVars

LookupNext == GetItemOp \/ FindOp \/ ListOp

SpecLookup == LookupInit /\ [][LookupNext]_vars

---------------------------------------------------------------------------
(* What the lookup and find claims speak of.                               *)

RECURSIVE Walk(_, _)
\* the walk of the child maps along a list of names: the node reached, or
\* no node when a name is missing or a File is met before the last name
Walk(d, comps) ==
    IF comps = <<>> THEN Found(d)
    ELSE IF Head(comps) \in DOMAIN d.dirs THEN Walk(d.dirs[Head(comps)], Tail(comps))
    ELSE IF Head(comps) \in DOMAIN d.files /\ Len(comps) = 1 THEN Found(d.files[Head(comps)])
    ELSE [ok |-> FALSE]

\* the names a path consists of, once normalised
Components(path) ==
    LET n == NormPath(path)
    IN  IF n = DOT THEN <<>> ELSE SplitAll(n)

\* C5: a path whose walk reaches no node fails with a not-found error, and
\* the message the caller sees contains the whole requested path.
C5_UnresolvedPathFails ==
    (op.name = "getitem" /\ ~Walk(root, Components(op.path)).ok) =>
        /\ ~result.ok
        /\ Contains(result.args, op.path)

\* C6: find("") with recursion yields every File and Directory below the
\* Directory, at every depth, exactly once.
C6_FindYieldsAllOnce ==
    (op.name = "find" /\ op.path = <<>> /\ op.recursive) =>
        /\ Range(result) = AllFiles(root) \cup AllDirs(root)
        /\ Len(result) = Cardinality(AllFiles(root)) + Cardinality(AllDirs(root))

C6_Witness ==
    /\ op.name = "find" /\ op.path = <<>> /\ op.recursive
    /\ \E n \in AllFiles(root) : Len(n.path) >= 5
    /\ Len(result) >= 5

---------------------------------------------------------------------------
(* Loading a Filesystem and reading a File's content.                      *)
(*                                                                         *)
(* A container file is its header's root block index and its block table;  *)
(* a block table entry stands for the block found at its offset.  The      *)
(* files drawn hold a block of the expected kind wherever an index is in   *)
(* range: what is malformed in them is the indices.                        *)

\* the compression codes of the files: none, an unassigned code, the old
\* format, lzma
Codes == {1, 2, 3, 5}

\* the blocks of the index file that hold a directory record; block 0 is
\* the root block
DirBlocks == {1, 2}
\* what a block index of the index file may hold; 3 and 4 are out of range
IndexTargets == DirBlocks \cup {3}
RootIndexes == {0, 3, 4}

NoFile == [present |-> FALSE]

DirEntry(name, block_index) == [name |-> name, block_index |-> block_index]
FileEntry(name, compression, sha1) ==
    [name |-> name, compression |-> compression, sha1 |-> sha1]

\* the dir entries of one directory record: none, or one child named "d"
DirEntryLists == {<<>>} \cup {<<DirEntry(<<"d">>, b)>> : b \in IndexTargets}

IndexFiles ==
    {[present |-> TRUE,
      root_index |-> ri,
      fs |-> <<[magic |-> "XDIA", root_dir_index |-> rd]>>
             \o [b \in 1..Cardinality(DirBlocks) |->
                    [dirs |-> ds[b],
                     files |-> IF b \in F
                               THEN <<FileEntry(<<"f">>, c, h)>>
                               ELSE <<>>]]]
     : ri \in RootIndexes, rd \in IndexTargets, ds \in [DirBlocks -> DirEntryLists],
       F \in SUBSET DirBlocks, c \in Codes, h \in Hashes}

\* the hash tables of the data file: "h1" is absent, or stored in block 2,
\* or said to be in block 3, which the block table does not have
HashTables ==
    {[x \in {} |-> x]} \cup {[x \in {"h1"} |-> <<b, 8>>] : b \in {2, 3}}

DataFiles ==
    {[present |-> TRUE,
      root_index |-> ri,
      fs |-> <<[magic |-> "CRAA", block_count |-> Cardinality(DOMAIN t),
                block_table_index |-> ti],
               [entries |-> t],
               [contents |-> "bytes"]>>]
     : ri \in RootIndexes, ti \in {1, 3}, t \in HashTables}

FsLookup_Wrapping(fs, i) == [ok |-> TRUE, block |-> fs[(i % Len(fs)) + 1]]
\* fs[i] on a Python list with an unsigned i: the entry, or IndexError
FsLookup(fs, i) ==
    IF i < Len(fs) THEN [ok |-> TRUE, block |-> fs[i + 1]] ELSE [ok |-> FALSE]

\* Archive.__init__(file): the Archive, or the exception, with the block
\* indices it sought and read through
ArchiveInit(file) ==
    LET fs == file.fs
        r == FsLookup(fs, file.root_index)
    IN  IF ~r.ok THEN [ok |-> FALSE, error |-> "IndexError", sought |-> {}]
        ELSE IF r.block.magic = "CRAA"
        THEN LET t == FsLookup(fs, r.block.block_table_index)
             IN  IF ~t.ok
                 THEN [ok |-> FALSE, error |-> "IndexError",
                       sought |-> {file.root_index}]
                 ELSE [ok |-> TRUE,
                       archive |-> [present |-> TRUE, fs |-> fs,
                                    blocks |-> t.block.entries],
                       sought |-> {file.root_index, r.block.block_table_index}]
        ELSE IF r.block.magic = "XDIA"
        THEN [ok |-> TRUE,
              archive |-> [present |-> TRUE, fs |-> fs,
                           root_dir_index |-> r.block.root_dir_index],
              sought |-> {file.root_index}]
        ELSE [ok |-> TRUE, archive |-> [present |-> TRUE, fs |-> fs],
              sought |-> {file.root_index}]

NoError == [type |-> "none"]
Error(type, at) == [type |-> type, at |-> at]
NoRead == [called |-> FALSE]

FsInit ==
    /\ indexFile \in IndexFiles
    /\ dataFile \in DataFiles \cup {NoFile}
    /\ pc = "start"
    /\ index = <<>>
    /\ data = <<>>
    /\ stack = <<>>
    /\ fsroot = <<>>
    /\ seeks = {}
    /\ err = NoError
    /\ lastRead = NoRead
    /\ DiffIdle
    /\ LookupIdle

\* self.index = Archive(index)
OpenIndex ==
    /\ pc = "start"
    /\ LET a == ArchiveInit(indexFile)
       IN  /\ seeks' = seeks \cup {<<"index", i>> : i \in a.sought}
           /\ IF a.ok
              THEN /\ index' = a.archive
                   /\ pc' = "index"
                   /\ err' = err
              ELSE /\ index' = index
                   /\ pc' = "failed"
                   /\ err' = Error(a.error, "index archive")
    /\ UNCHANGED <<indexFile, dataFile, data, stack, fsroot, lastRead>>
    /\ UNCHANGED <<diffVars, lookupVars>>

\* self.data = Archive(data) if data else None, where optopen gave None for
\* a missing .archive file
OpenData ==
    /\ pc = "index"
    /\ LET a == IF dataFile.present THEN ArchiveInit(dataFile)
                ELSE [ok |-> TRUE, archive |-> [present |-> FALSE], sought |-> {}]
       IN  /\ seeks' = seeks \cup {<<"data", i>> : i \in a.sought}
           /\ IF a.ok
              THEN /\ data' = a.archive
                   /\ pc' = "building"
                   /\ err' = err
              ELSE /\ data' = data
                   /\ pc' = "failed"
                   /\ err' = Error(a.error, "data archive")
    /\ UNCHANGED <<indexFile, dataFile, index, stack, fsroot, lastRead>>
    /\ UNCHANGED <<diffVars, lookupVars>>

Top == stack[Len(stack)]
FramePath(frame) == Join(frame.parentPath, frame.name)

\* the arguments of the Directory.__init__ call that comes next: the root
\* from Filesystem.__init__, or the next dir entry of the innermost call
NextCall ==
    IF stack = <<>>
    THEN [name |-> <<>>, parentPath |-> <<>>, block_index |-> index.root_dir_index]
    ELSE [name |-> Top.rec.dirs[Top.i].name,
          parentPath |-> FramePath(Top),
          block_index |-> Top.rec.dirs[Top.i].block_index]

\* Directory.__init__ is entered (lines 94-114): the block is looked up,
\* sought and read.  Nothing in it refuses a block that is being read
\* further up the stack; the interpreter ends a recursion that gets too deep.
DirCall ==
    /\ pc = "building"
    /\ IF stack = <<>> THEN TRUE ELSE Top.i <= Len(Top.rec.dirs)
    /\ LET c == NextCall
           b == FsLookup(index.fs, c.block_index)
       IN  IF Len(stack) >= RecursionLimit
           THEN /\ pc' = "failed"
                /\ err' = Error("RecursionError", "directory")
                /\ stack' = <<>>
                /\ seeks' = seeks
           ELSE IF ~b.ok
           THEN /\ pc' = "failed"
                /\ err' = Error("IndexError", "directory")
                /\ stack' = <<>>
                /\ seeks' = seeks
           ELSE /\ pc' = pc
                /\ err' = err
                /\ stack' = Append(stack,
                        [name |-> c.name, parentPath |-> c.parentPath,
                         block_index |-> c.block_index, rec |-> b.block,
                         i |-> 1, dirs |-> [x \in {} |-> x]])
                /\ seeks' = seeks \cup {<<"index", c.block_index>>}
    /\ UNCHANGED <<indexFile, dataFile, index, data, fsroot, lastRead>>
    /\ UNCHANGED <<diffVars, lookupVars>>

\* self.files[name] = File(...) for each file entry, a later one overwriting
FilesOf(entries, path) ==
    LET names == {entries[i].name : i \in 1..Len(entries)}
        last(n) == CHOOSE i \in 1..Len(entries) :
                        /\ entries[i].name = n
                        /\ \A j \in (i + 1)..Len(entries) : entries[j].name # n
    IN  [n \in names |->
            File(n, path, 1, entries[last(n)].compression, entries[last(n)].sha1)]

\* d with d[name] = node
Put(d, name, node) ==
    [n \in DOMAIN d \cup {name} |-> IF n = name THEN node ELSE d[n]]

\* Directory.__init__ returns (lines 116-122 done): the node goes into the
\* caller's dirs, or becomes Filesystem.root
DirReturn ==
    /\ pc = "building"
    /\ stack # <<>>
    /\ Top.i > Len(Top.rec.dirs)
    /\ LET node == Directory(Top.name, Top.parentPath, 1, Top.dirs,
                             FilesOf(Top.rec.files, FramePath(Top)))
           rest == SubSeq(stack, 1, Len(stack) - 1)
       IN  IF rest = <<>>
           THEN /\ fsroot' = node
                /\ pc' = "ready"
                /\ stack' = <<>>
           ELSE /\ fsroot' = fsroot
                /\ pc' = pc
                /\ stack' = [rest EXCEPT ![Len(rest)] =
                                [@ EXCEPT !.dirs = Put(@, Top.name, node),
                                          !.i = @ + 1]]
    /\ UNCHANGED <<indexFile, dataFile, index, data, seeks, err, lastRead>>
    /\ UNCHANGED <<diffVars, lookupVars>>

Return(value) == [kind |-> "return", value |-> value, sought |-> {}]
Raise(error)  == [kind |-> "raise", error |-> error, sought |-> {}]

\* lines 199-204, with the block's contents read: code 1 returns them, code
\* 3 evaluates `raise NotImplemented(...)`, a call of a constant that is not
\* callable, code 5 returns what the decompressor gives or raises its
\* error, and any other code falls off the end of the function
Dispatch(compression, lzmaOk) ==
    IF compression = 1 THEN Return("contents")
    ELSE IF compression = 3 THEN Raise("TypeError")
    ELSE IF compression = 5
         THEN IF lzmaOk THEN Return("decompressed") ELSE Raise("LZMAError")
    ELSE Return("None")

read_IgnoringMissingStore(file, d, lzmaOk) ==
    IF d.present /\ file.sha1 \in DOMAIN d.blocks
    THEN LET b == FsLookup(d.fs, d.blocks[file.sha1][1])
         IN  IF ~b.ok THEN Raise("IndexError")
             ELSE [Dispatch(file.compression, lzmaOk) EXCEPT
                        !.sought = {d.blocks[file.sha1][1]}]
    ELSE Dispatch(file.compression, lzmaOk)

\* File.read(self), with self.fs.data = d
read(file, d, lzmaOk) ==
    IF d.present
    THEN IF file.sha1 \notin DOMAIN d.blocks THEN Raise("KeyError")
         ELSE LET b == FsLookup(d.fs, d.blocks[file.sha1][1])
              IN  IF ~b.ok THEN Raise("IndexError")
                  ELSE [Dispatch(file.compression, lzmaOk) EXCEPT
                            !.sought = {d.blocks[file.sha1][1]}]
    ELSE Raise("FileNotFoundError")

\* some File of the loaded tree is read
ReadFile ==
    /\ pc = "ready"
    /\ \E file \in AllFiles(fsroot), lzmaOk \in BOOLEAN :
        LET out == read(file, data, lzmaOk)
        IN  /\ lastRead' = [called |-> TRUE, file |-> file, out |-> out]
            /\ seeks' = seeks \cup {<<"data", i>> : i \in out.sought}
    /\ UNCHANGED <<indexFile, dataFile, pc, index, data, stack, fsroot, err>>
    /\ UNCHANGED <<diffVars, lookupVars>>

FsNext == OpenIndex \/ OpenData \/ DirCall \/ DirReturn \/ ReadFile

SpecFs == FsInit /\ [][FsNext]_vars

---------------------------------------------------------------------------
(* What the loading and reading claims speak of.                           *)

ReadOut == lastRead.out
\* the last read found the File's hash in the data container's hash table
HashFound == data.present /\ lastRead.file.sha1 \in DOMAIN data.blocks
\* the block index the hash table gives for the File read last
LocalIndex == data.blocks[lastRead.file.sha1][1]

\* C7: with a data container and the hash found, read returns a value only
\* for the codes 1 and 5; code 3 and every other code end in an error.
C7_ReturnsOnlyForCodes1And5 ==
    (lastRead.called /\ HashFound /\ LocalIndex < Len(data.fs)) =>
        LET c == lastRead.file.compression
        IN  /\ ReadOut.kind = "return" => c \in {1, 5}
            /\ c = 3 => ReadOut.kind = "raise"
            /\ c \notin {1, 3, 5} => ReadOut.kind = "raise"

TableLen(container) ==
    IF container = "index" THEN Len(indexFile.fs) ELSE Len(dataFile.fs)

RECURSIVE Reached(_, _)
\* the block indices Directory construction comes to from a set of them,
\* following the dir entries of the blocks that are in range
Reached(from, n) ==
    IF n = 0 THEN from
    ELSE Reached(from \cup
            UNION {{indexFile.fs[b + 1].dirs[i].block_index
                        : i \in 1..Len(indexFile.fs[b + 1].dirs)}
                   : b \in {x \in from : x < Len(indexFile.fs)}}, n - 1)

IndexRootOk == indexFile.root_index < Len(indexFile.fs)
DataRootOk == dataFile.root_index < Len(dataFile.fs)
DataTableOk == dataFile.fs[dataFile.root_index + 1].block_table_index < Len(dataFile.fs)

\* C8: no seek or read goes through a block index that is not below the
\* length of its container's block table, and each of the four uses of such
\* an index ends in an error instead: the header's root block index, the
\* hash-table root's table block index, a directory entry's child block
\* index, and the hash table's local index at read time.
C8_OutOfRangeIndexFails ==
    /\ \A s \in seeks : s[2] < TableLen(s[1])
    /\ (pc # "start" /\ ~IndexRootOk) =>
            pc = "failed" /\ err = Error("IndexError", "index archive")
    /\ (pc \notin {"start", "index"} /\ IndexRootOk /\ dataFile.present
            /\ (~DataRootOk \/ ~DataTableOk)) =>
            pc = "failed" /\ err = Error("IndexError", "data archive")
    /\ \A i \in 1..Len(stack) : stack[i].block_index < Len(indexFile.fs)
    /\ pc = "ready" =>
            \A b \in Reached({indexFile.fs[1].root_dir_index}, Cardinality(DirBlocks)) :
                b < Len(indexFile.fs)
    /\ (lastRead.called /\ HashFound /\ LocalIndex >= Len(data.fs)) =>
            /\ ReadOut.kind = "raise" /\ ReadOut.error = "IndexError"
            /\ ReadOut.sought = {}

C8_Witness ==
    /\ lastRead.called /\ HashFound /\ LocalIndex >= Len(data.fs)
    /\ ReadOut.kind = "raise"
    /\ \E s \in seeks : s[1] = "data"
    /\ Cardinality({s \in seeks : s[1] = "index"}) >= 3

\* C9: without a .archive file the Filesystem is still built, and every
\* read of a File fails with the no-data-container error whatever the hash
\* and compression code, touching no block; with a data container that
\* lacks the File's hash the read fails with the lookup's error before any
\* block is sought.
C9_ReadWithoutContent ==
    /\ ~dataFile.present =>
            /\ err.type # "none" => err.at # "data archive"
            /\ pc \in {"building", "ready"} => ~data.present
            /\ \A s \in seeks : s[1] # "data"
    /\ (lastRead.called /\ ~dataFile.present) =>
            /\ ReadOut.kind = "raise" /\ ReadOut.error = "FileNotFoundError"
            /\ ReadOut.sought = {}
    /\ (lastRead.called /\ data.present /\ ~HashFound) =>
            /\ ReadOut.kind = "raise" /\ ReadOut.error = "KeyError"
            /\ ReadOut.sought = {}

C9_Witness ==
    /\ lastRead.called /\ ~dataFile.present
    /\ lastRead.file.compression = 1
    /\ ReadOut.kind = "raise"
    /\ Len(lastRead.file.path) >= 3

\* C10: Directory construction bounds its own depth: it never nests deeper
\* than there are directory blocks, and it ends with a tree or a format
\* error, not with the interpreter giving up on the recursion.
C10_ConstructionDepthBounded ==
    /\ Len(stack) <= Cardinality(DirBlocks)
    /\ (pc = "failed" /\ err.at = "directory") => err.type = "IndexError"

====
